---- MODULE Spec2Model ----
(***************************************************************************)
(* Arithmetization of the Collatz computation (examples/src/collatz):      *)
(* the trace builder (prover.rs), the AIR (air.rs) and the example glue    *)
(* (mod.rs).  Field elements are residues modulo the prime M; usize and    *)
(* u32 values are naturals.                                                *)
(***************************************************************************)
EXTENDS Integers, Naturals, Sequences, FiniteSets, TLC

\* ------------------------------------------------------------------------
\* Program constants
\* ------------------------------------------------------------------------
TRACE_WIDTH == 7

\* CollatzExample::new: assert!(initial_number < 100)
INITIAL_LIMIT == 100

\* ------------------------------------------------------------------------
\* Field arithmetic primitives (BaseElement): a prime field.  Elements are
\* kept in canonical form 0..M-1.  The modulus is small enough to enumerate
\* and larger than every value the builder, the public inputs and the
\* assertions produce (cells, decoded values, 3n + 1 <= 190, step counts
\* <= 128), so on traces no sum or product is reduced, as in the 128-bit
\* field.
\* ------------------------------------------------------------------------
M == 257

Elements == 0 .. (M - 1)

ZERO == 0

ONE == 1

New(v) == v % M

Add(a, b) == (a + b) % M

Sub(a, b) == (a + M - b) % M

Mul(a, b) == (a * b) % M

\* multiplicative inverse; the inverse of ZERO is ZERO
Inv(b) == IF b = ZERO THEN ZERO ELSE CHOOSE x \in Elements : (b * x) % M = 1

Div(a, b) == Mul(a, Inv(b))

\* canonical little-endian byte encoding, 16 bytes
RECURSIVE ShiftRightBytes(_, _)
ShiftRightBytes(v, i) == IF i = 0 THEN v ELSE ShiftRightBytes(v \div 256, i - 1)

as_bytes(e) == [i \in 0 .. 15 |-> ShiftRightBytes(e, i) % 256]

\* byteorder::LittleEndian::read_u128 / read_uint128(_, 16)
RECURSIVE read_le(_, _)
read_le(bytes, i) == IF i > 15 THEN 0 ELSE bytes[i] + 256 * read_le(bytes, i + 1)

read_u128(bytes) == read_le(bytes, 0)

\* crate::utils
is_binary(v) == Sub(Mul(v, v), v)

are_equal(a, b) == Sub(a, b)

\* ------------------------------------------------------------------------
\* mod.rs
\* ------------------------------------------------------------------------
\* body of the loop `while n > 1` of compute_collatz
collatz_body(n) == IF n % 2 = 1 THEN 3 * n + 1 ELSE n \div 2

\* ------------------------------------------------------------------------
\* prover.rs
\* ------------------------------------------------------------------------
\* (n as f64).log2().ceil() as usize: the float-to-usize cast saturates, so
\* log2(0) = -inf gives 0
RECURSIVE ceil_log2(_, _)
ceil_log2(n, e) == IF 2 ^ e >= n THEN e ELSE ceil_log2(n, e + 1)

ceil_to_power_of_two(n) == 2 ^ ceil_log2(n, 0)

RECURSIVE count_ones(_)
count_ones(n) == IF n = 0 THEN 0 ELSE (n % 2) + count_ones(n \div 2)

is_power_of_two(n) == count_ones(n) = 1

\* build_trace, lines 31-36
trace_length_of(step) ==
    IF ~is_power_of_two(step) THEN ceil_to_power_of_two(step) ELSE step

\* the decomposition loop without the mask `& 1`
decompose_into_unmasked(state, n) ==
    [i \in 0 .. (TRACE_WIDTH - 1) |->
        IF i < TRACE_WIDTH - 1 THEN New(n \div (2 ^ i)) ELSE state[i]]

\* the loop `for i in 0..(TRACE_WIDTH-1) { state[i] = new(n & 1); n >>= 1 }`
\* applied to a row: the bit cells are overwritten, the last cell is kept
decompose_into(state, n) ==
    [i \in 0 .. (TRACE_WIDTH - 1) |->
        IF i < TRACE_WIDTH - 1 THEN New((n \div (2 ^ i)) % 2) ELSE state[i]]

\* the working row TraceTable::fill hands to the callbacks
zero_state == [i \in 0 .. (TRACE_WIDTH - 1) |-> ZERO]

\* first closure of trace.fill
fill_init(state, initial_number) == decompose_into(state, initial_number)

\* the reconstruction loop: n = ONE; for i in (0..6).rev() { n *= 2; n += s[i] }
RECURSIVE horner(_, _, _)
horner(state, i, n) ==
    IF i < 0 THEN n ELSE horner(state, i - 1, Add(Mul(n, New(2)), state[i]))

\* the reconstruction walking the cells in ascending order (big-endian)
RECURSIVE horner_ascending(_, _, _)
horner_ascending(state, i, n) ==
    IF i > TRACE_WIDTH - 2
    THEN n
    ELSE horner_ascending(state, i + 1, Add(Mul(n, New(2)), state[i]))

num_from_state_big_endian(state) ==
    Sub(horner_ascending(state, 0, ONE), New(2 ^ (TRACE_WIDTH - 1)))

\* ... followed by n -= 1 << (TRACE_WIDTH-1); the same loop is written out
\* in the second closure of fill (prover.rs 60-65) and in get_pub_inputs
\* (prover.rs 109-114)
num_from_state(state) ==
    Sub(horner(state, TRACE_WIDTH - 2, ONE), New(2 ^ (TRACE_WIDTH - 1)))

\* the second closure with the counter bumped ahead of the early return
fill_update_counting_padding(state) ==
    LET n == num_from_state(state)
        bumped == [state EXCEPT ![TRACE_WIDTH - 1] = Add(state[TRACE_WIDTH - 1], ONE)]
    IN
    IF n = ONE
    THEN bumped
    ELSE LET n2 == IF state[0] = ZERO
                   THEN Div(n, New(2))
                   ELSE Add(Mul(n, New(3)), ONE)
         IN  decompose_into(bumped, as_bytes(n2)[0])

\* the second closure with the early return taken on ZERO instead of ONE
fill_update_returning_on_zero(state) ==
    LET n == num_from_state(state) IN
    IF n = ZERO
    THEN state
    ELSE LET n2 == IF state[0] = ZERO
                   THEN Div(n, New(2))
                   ELSE Add(Mul(n, New(3)), ONE)
             s2 == decompose_into(state, as_bytes(n2)[0])
         IN  [s2 EXCEPT ![TRACE_WIDTH - 1] = Add(s2[TRACE_WIDTH - 1], ONE)]

\* second closure of trace.fill
fill_update(state) ==
    LET n == num_from_state(state) IN
    IF n = ONE
    THEN state
    ELSE LET n2 == IF state[0] = ZERO
                   THEN Div(n, New(2))
                   ELSE Add(Mul(n, New(3)), ONE)
             nb == as_bytes(n2)[0]
             s2 == decompose_into(state, nb)
         IN  [s2 EXCEPT ![TRACE_WIDTH - 1] = Add(s2[TRACE_WIDTH - 1], ONE)]

\* get_pub_inputs: the initial number decoded from row 0, the prover's step
get_pub_inputs(tr, prover_step) ==
    [initial_num |-> num_from_state(tr[1]), step |-> New(prover_step)]

\* ------------------------------------------------------------------------
\* air.rs
\* ------------------------------------------------------------------------
\* Serializable for PublicInputs: the bytes written to the target
write_into(pi) == [i \in 0 .. 15 |-> as_bytes(pi.initial_num)[i]]

u128_from_field(e) == read_u128(as_bytes(e))

\* CollatzAir::new, lines 44-45: the usize expression
\* ceil_to_power_of_two(step) - (step + 1) + 2, evaluated left to right.
\* The difference d is never below -1, so with wrapping arithmetic the sum
\* (d mod 2^64 + 2) mod 2^64 is d + 2; with overflow checks the
\* subtraction panics when d < 0.
pad_length_of(pub_step) ==
    LET s == read_u128(as_bytes(pub_step))
        d == ceil_to_power_of_two(s) - (s + 1)
    IN  [underflow |-> d < 0, value |-> d + 2]

zero_result == [i \in 0 .. 1 |-> ZERO]

\* the loop `for i in 0..(TRACE_WIDTH-1) { result[0] += is_binary(current[i]) }`
RECURSIVE binary_sum(_, _, _)
binary_sum(current, i, acc) ==
    IF i >= TRACE_WIDTH - 1
    THEN acc
    ELSE binary_sum(current, i + 1, Add(acc, is_binary(current[i])))

\* the recurrence residual with the even branch selected by b0 + 1
recurrence_residual_wrong_selector(current, next) ==
    LET current_num == num_from_state(current)
        next_num == num_from_state(next)
    IN  Add(Mul(current[0],
                are_equal(Add(Mul(current_num, New(3)), ONE), next_num)),
            Mul(Add(current[0], ONE),
                are_equal(current_num, Mul(New(2), next_num))))

\* evaluate_transition, lines 79-83: result[1]
recurrence_residual(current, next) ==
    LET current_num == num_from_state(current)
        next_num == num_from_state(next)
    IN  Add(Mul(current[0],
                are_equal(Add(Mul(current_num, New(3)), ONE), next_num)),
            Mul(Sub(current[0], ONE),
                are_equal(current_num, Mul(New(2), next_num))))

\* evaluate_transition: result[0] is accumulated into, result[1] is assigned
evaluate_transition(current, next, result) ==
    [i \in 0 .. 1 |->
        IF i = 0
        THEN binary_sum(current, 0, result[0])
        ELSE recurrence_residual(current, next)]

Assertion(column, row, value) == [column |-> column, row |-> row, value |-> value]

get_assertions(pi) ==
    LET n == as_bytes(pi.initial_num)[0]
        bit_vec == [i \in 0 .. (TRACE_WIDTH - 1) |->
                       IF (n \div (2 ^ i)) % 2 = 1 THEN ONE ELSE ZERO]
        s == u128_from_field(pi.step)
    IN  << Assertion(0, 0, bit_vec[0]),
           Assertion(1, 0, bit_vec[1]),
           Assertion(2, 0, bit_vec[2]),
           Assertion(3, 0, bit_vec[3]),
           Assertion(4, 0, bit_vec[4]),
           Assertion(5, 0, bit_vec[5]),
           Assertion(6, 0, ZERO),
           Assertion(0, s, ONE),
           Assertion(1, s, ZERO),
           Assertion(2, s, ZERO),
           Assertion(3, s, ZERO),
           Assertion(4, s, ZERO),
           Assertion(5, s, ZERO),
           Assertion(6, s, pi.step) >>

\* ------------------------------------------------------------------------
\* The proving framework, as far as the AIR's declarations are concerned
\* ------------------------------------------------------------------------
\* trailing rows excluded from transition-constraint enforcement
exempt_rows(length, count) == {r \in 0 .. (length - 1) : r >= length - count}

assertion_in_table(a, length) == a.row < length

assertion_holds(a, tr) == a.row < Len(tr) /\ tr[a.row + 1][a.column] = a.value

transitions_hold(tr, count) ==
    \A r \in 0 .. (Len(tr) - 2) :
        r \notin exempt_rows(Len(tr), count)
            => evaluate_transition(tr[r + 1], tr[r + 2], zero_result) = zero_result

check_outcome(tr, asserts, count) ==
    IF \E j \in 1 .. Len(asserts) : ~assertion_in_table(asserts[j], Len(tr))
    THEN "fault"
    ELSE IF /\ \A j \in 1 .. Len(asserts) : assertion_holds(asserts[j], tr)
            /\ transitions_hold(tr, count)
         THEN "accept"
         ELSE "reject"

\* ------------------------------------------------------------------------
\* State
\* ------------------------------------------------------------------------
VARIABLES
    initial_number,   \* CollatzExample.initial_number
    n,                \* loop variable of compute_collatz
    step,             \* CollatzExample.step
    orbit,            \* values n has taken in compute_collatz, in order
    pc,               \* position of the session
    trace_length,     \* length of the allocated table
    trace,            \* rows written so far (row r is trace[r + 1])
    state,            \* working row of TraceTable::fill
    caller,           \* who constructed the AIR
    pub_inputs,       \* PublicInputs handed to CollatzAir::new
    serialized,       \* bytes written by PublicInputs::write_into
    pad_length,       \* num_transition_exemptions of the AIR context
    fault,            \* panic raised, if any
    assertions,       \* result of get_assertions
    current,          \* frame.current() of the last evaluate_transition
    next,             \* frame.next() of the last evaluate_transition
    result_in,        \* result buffer before the call
    result,           \* result buffer after the call
    eval_row,         \* row index of `current` in the trace
    outcome,          \* accept / reject / fault
    sequence_length,  \* argument of FibSmallProver::build_trace
    fib_trace,        \* rows of the Fibonacci table written so far
    fib_state,        \* working row of TraceTable::fill (Fibonacci)
    fib_pub           \* result of FibSmallProver::get_pub_inputs

session_vars == <<initial_number, n, step, orbit, trace_length, trace, state>>

air_vars == <<caller, pub_inputs, serialized, pad_length, fault>>

frame_vars == <<current, next, result_in, result, eval_row>>

fib_vars == <<sequence_length, fib_trace, fib_state, fib_pub>>

vars == <<initial_number, n, step, orbit, pc, trace_length, trace, state,
          caller, pub_inputs, serialized, pad_length, fault, assertions,
          current, next, result_in, result, eval_row, outcome,
          sequence_length, fib_trace, fib_state, fib_pub>>

no_inputs == [initial_num |-> ZERO, step |-> ZERO]

\* the working row TraceTable::fill hands to the Fibonacci callbacks
fib_zero_state == [i \in 0 .. 1 |-> ZERO]

\* no Fibonacci session
InitNoFib ==
    /\ sequence_length = 0
    /\ fib_trace = <<>>
    /\ fib_state = fib_zero_state
    /\ fib_pub = ZERO

InitRest ==
    /\ trace_length = 0
    /\ trace = <<>>
    /\ state = zero_state
    /\ caller = "none"
    /\ pub_inputs = no_inputs
    /\ serialized = <<>>
    /\ pad_length = 0
    /\ fault = "none"
    /\ assertions = <<>>
    /\ outcome = "none"

\* CollatzExample::new has checked initial_number < 100 and enters
\* compute_collatz with (n, step) = (initial_number, 0)
Init ==
    /\ initial_number \in 0 .. (INITIAL_LIMIT - 1)
    /\ n = initial_number
    /\ step = 0
    /\ orbit = <<initial_number>>
    /\ pc = "collatz"
    /\ current = zero_state
    /\ next = zero_state
    /\ result_in = zero_result
    /\ result = zero_result
    /\ eval_row = 0
    /\ InitRest
    /\ InitNoFib

\* one iteration of `while n > 1`
ComputeCollatzStep ==
    /\ pc = "collatz"
    /\ n > 1
    /\ n' = collatz_body(n)
    /\ step' = step + 1
    /\ orbit' = Append(orbit, n')
    /\ UNCHANGED <<initial_number, pc, trace_length, trace, state, assertions, outcome>>
    /\ UNCHANGED air_vars
    /\ UNCHANGED frame_vars
    /\ UNCHANGED fib_vars

\* loop exit; CollatzExample::new returns
ComputeCollatzDone ==
    /\ pc = "collatz"
    /\ ~(n > 1)
    /\ pc' = "prove"
    /\ UNCHANGED session_vars
    /\ UNCHANGED <<assertions, outcome>>
    /\ UNCHANGED air_vars
    /\ UNCHANGED frame_vars
    /\ UNCHANGED fib_vars

\* build_trace up to and including the first closure of fill
BuildTraceInit ==
    /\ pc = "prove"
    /\ trace_length' = trace_length_of(step)
    /\ state' = fill_init(zero_state, initial_number)
    /\ trace' = <<state'>>
    /\ pc' = IF trace_length' = 1 THEN "built" ELSE "fill"
    /\ UNCHANGED <<initial_number, n, step, orbit, assertions, outcome>>
    /\ UNCHANGED air_vars
    /\ UNCHANGED frame_vars
    /\ UNCHANGED fib_vars

\* one iteration of fill's loop: the second closure, then the row is stored
FillUpdate ==
    /\ pc = "fill"
    /\ Len(trace) < trace_length
    /\ state' = fill_update(state)
    /\ trace' = Append(trace, state')
    /\ pc' = IF Len(trace') = trace_length THEN "built" ELSE "fill"
    /\ UNCHANGED <<initial_number, n, step, orbit, trace_length, assertions, outcome>>
    /\ UNCHANGED air_vars
    /\ UNCHANGED frame_vars
    /\ UNCHANGED fib_vars

\* CollatzAir::new for the given public inputs; the inputs are first bound
\* into the transcript through write_into
AirNew(who, pi) ==
    /\ pc = "built"
    /\ caller' = who
    /\ pub_inputs' = pi
    /\ serialized' = write_into(pi)
    /\ \E overflow_checks \in BOOLEAN :
         LET pad == pad_length_of(pi.step) IN
         IF pad.underflow /\ overflow_checks
         THEN /\ fault' = "underflow"
              /\ pad_length' = 0
              /\ pc' = "fault"
         ELSE /\ fault' = "none"
              /\ pad_length' = pad.value
              /\ pc' = "air"
    /\ UNCHANGED session_vars
    /\ UNCHANGED <<assertions, outcome>>
    /\ UNCHANGED frame_vars
    /\ UNCHANGED fib_vars

\* Example::prove: prover.prove(trace) derives the inputs from the trace
Prove == AirNew("prove", get_pub_inputs(trace, step))

\* Example::verify
Verify ==
    AirNew("verify", [initial_num |-> New(initial_number), step |-> New(step)])

\* Example::verify_with_wrong_inputs
VerifyWithWrongInputs ==
    AirNew("verify_with_wrong_inputs",
           [initial_num |-> New(initial_number), step |-> New(step + 1)])

GetAssertions ==
    /\ pc = "air"
    /\ assertions' = get_assertions(pub_inputs)
    /\ pc' = "asserted"
    /\ UNCHANGED session_vars
    /\ UNCHANGED outcome
    /\ UNCHANGED air_vars
    /\ UNCHANGED frame_vars
    /\ UNCHANGED fib_vars

\* evaluate_transition on the frame (row r, row r + 1) of the trace; the
\* framework walks the frames in row order, each with a zeroed buffer
EvaluateTransition ==
    /\ pc \in {"asserted", "evaluating"}
    /\ LET r == IF pc = "asserted" THEN 0 ELSE eval_row + 1 IN
         /\ r <= Len(trace) - 2
         /\ eval_row' = r
         /\ current' = trace[r + 1]
         /\ next' = trace[r + 2]
         /\ result_in' = zero_result
         /\ result' = evaluate_transition(trace[r + 1], trace[r + 2], zero_result)
    /\ pc' = "evaluating"
    /\ UNCHANGED session_vars
    /\ UNCHANGED <<assertions, outcome>>
    /\ UNCHANGED air_vars
    /\ UNCHANGED fib_vars

\* every frame has been evaluated: the framework settles the trace against
\* the assertions and the non-exempt transitions
Conclude ==
    /\ \/ pc = "asserted" /\ Len(trace) < 2
       \/ pc = "evaluating" /\ eval_row = Len(trace) - 2
    /\ outcome' = check_outcome(trace, assertions, pad_length)
    /\ fault' = IF outcome' = "fault" THEN "row_outside_table" ELSE fault
    /\ pc' = "done"
    /\ UNCHANGED session_vars
    /\ UNCHANGED <<caller, pub_inputs, serialized, pad_length, assertions>>
    /\ UNCHANGED frame_vars
    /\ UNCHANGED fib_vars

Next ==
    \/ ComputeCollatzStep
    \/ ComputeCollatzDone
    \/ BuildTraceInit
    \/ FillUpdate
    \/ Prove
    \/ Verify
    \/ VerifyWithWrongInputs
    \/ GetAssertions
    \/ EvaluateTransition
    \/ Conclude

Spec == Init /\ [][Next]_vars

\* ------------------------------------------------------------------------
\* A single frame with arbitrary cells: evaluate_transition as a function
\* ------------------------------------------------------------------------
\* columns of the current row that range over FrameCells (the others are bits)
FrameWideColumns == 3

\* the next row encodes a value in 0 .. MaxFrameNext
MaxFrameNext == 15

\* field elements a cell is drawn from; 3 and 79 are not bits
FrameCells == {0, 1, 3, 79}

FrameCurrent ==
    {row \in [0 .. (TRACE_WIDTH - 1) -> FrameCells] :
        /\ \A i \in 0 .. (TRACE_WIDTH - 2) : i >= FrameWideColumns => row[i] \in {0, 1}
        /\ row[TRACE_WIDTH - 1] = ZERO}

FrameNext == {decompose_into(zero_state, v) : v \in 0 .. MaxFrameNext}

FrameBuffers == {zero_result, [i \in 0 .. 1 |-> ONE]}

InitFrame ==
    /\ initial_number = 0
    /\ n = 0
    /\ step = 0
    /\ orbit = <<>>
    /\ pc = "frame"
    /\ current \in FrameCurrent
    /\ next \in FrameNext
    /\ result_in \in FrameBuffers
    /\ result = result_in
    /\ eval_row = 0
    /\ InitRest
    /\ InitNoFib

\* one call of evaluate_transition on the frame
FrameEvaluate ==
    /\ pc = "frame"
    /\ result' = evaluate_transition(current, next, result_in)
    /\ pc' = "frame_done"
    /\ UNCHANGED session_vars
    /\ UNCHANGED <<assertions, outcome, current, next, result_in, eval_row>>
    /\ UNCHANGED air_vars
    /\ UNCHANGED fib_vars

\* the row is decoded as get_pub_inputs decodes row 0, and the decoded number
\* is decomposed again, by the builder's loop (into the working row) and by
\* get_assertions (into the asserted values of row 0)
FrameReencode ==
    /\ pc = "frame"
    /\ pub_inputs' = get_pub_inputs(<<current>>, 0)
    /\ state' = decompose_into(current, as_bytes(pub_inputs'.initial_num)[0])
    /\ assertions' = get_assertions(pub_inputs')
    /\ pc' = "frame_reencoded"
    /\ UNCHANGED <<initial_number, n, step, orbit, trace_length, trace>>
    /\ UNCHANGED <<caller, serialized, pad_length, fault, outcome>>
    /\ UNCHANGED frame_vars
    /\ UNCHANGED fib_vars

NextFrame == FrameEvaluate \/ FrameReencode

SpecFrame == InitFrame /\ [][NextFrame]_vars

\* ------------------------------------------------------------------------
\* fibonacci/fib_small/prover.rs
\* ------------------------------------------------------------------------
\* largest sequence length handed to FibSmallProver::build_trace
MaxSequenceLength == 64

\* first closure of trace.fill
fib_init(s) == [s EXCEPT ![0] = ONE, ![1] = ONE]

\* the second closure with the second cell advanced by the old first cell
fib_update_stale(s) ==
    [i \in 0 .. 1 |-> IF i = 0 THEN Add(s[0], s[1]) ELSE Add(s[1], s[0])]

\* second closure of trace.fill: state[0] += state[1]; state[1] += state[0]
fib_update(s) ==
    LET s0 == Add(s[0], s[1]) IN
    [i \in 0 .. 1 |-> IF i = 0 THEN s0 ELSE Add(s[1], s0)]

\* get_pub_inputs: last_step = trace.length() - 1; trace.get(1, last_step)
fib_get_pub_inputs(tr) == tr[(Len(tr) - 1) + 1][1]

InitFib ==
    /\ sequence_length \in 0 .. MaxSequenceLength
    /\ fib_trace = <<>>
    /\ fib_state = fib_zero_state
    /\ fib_pub = ZERO
    /\ initial_number = 0
    /\ n = 0
    /\ step = 0
    /\ orbit = <<>>
    /\ pc = "fib_new"
    /\ current = zero_state
    /\ next = zero_state
    /\ result_in = zero_result
    /\ result = zero_result
    /\ eval_row = 0
    /\ InitRest

collatz_vars ==
    <<initial_number, n, step, orbit, trace, state, caller, pub_inputs,
      serialized, pad_length, assertions, outcome>>

\* build_trace up to and including the first closure of fill: the assertion
\* on sequence_length, the allocation of sequence_length / 2 rows (which the
\* container refuses unless that length is a power of two), the first row
FibBuildTraceInit ==
    /\ pc = "fib_new"
    /\ IF ~is_power_of_two(sequence_length)
       THEN /\ fault' = "sequence_length_not_power_of_two"
            /\ pc' = "fault"
            /\ UNCHANGED <<trace_length, fib_trace, fib_state>>
       ELSE IF ~is_power_of_two(sequence_length \div 2)
       THEN /\ fault' = "trace_length_not_power_of_two"
            /\ pc' = "fault"
            /\ UNCHANGED <<trace_length, fib_trace, fib_state>>
       ELSE /\ fault' = fault
            /\ trace_length' = sequence_length \div 2
            /\ fib_state' = fib_init(fib_zero_state)
            /\ fib_trace' = <<fib_state'>>
            /\ pc' = IF trace_length' = 1 THEN "fib_built" ELSE "fib_fill"
    /\ UNCHANGED <<sequence_length, fib_pub>>
    /\ UNCHANGED collatz_vars
    /\ UNCHANGED frame_vars

\* one iteration of fill's loop
FibFillUpdate ==
    /\ pc = "fib_fill"
    /\ Len(fib_trace) < trace_length
    /\ fib_state' = fib_update(fib_state)
    /\ fib_trace' = Append(fib_trace, fib_state')
    /\ pc' = IF Len(fib_trace') = trace_length THEN "fib_built" ELSE "fib_fill"
    /\ UNCHANGED <<sequence_length, fib_pub, trace_length, fault>>
    /\ UNCHANGED collatz_vars
    /\ UNCHANGED frame_vars

FibGetPubInputs ==
    /\ pc = "fib_built"
    /\ fib_pub' = fib_get_pub_inputs(fib_trace)
    /\ pc' = "fib_done"
    /\ UNCHANGED <<sequence_length, fib_trace, fib_state, trace_length, fault>>
    /\ UNCHANGED collatz_vars
    /\ UNCHANGED frame_vars

NextFib == FibBuildTraceInit \/ FibFillUpdate \/ FibGetPubInputs

SpecFib == InitFib /\ [][NextFib]_vars

\* ------------------------------------------------------------------------
\* Properties
\* ------------------------------------------------------------------------
TypeOK ==
    /\ initial_number \in 0 .. (INITIAL_LIMIT - 1)
    /\ \A r \in 1 .. Len(trace) : \A c \in 0 .. (TRACE_WIDTH - 1) : trace[r][c] \in Elements
    /\ outcome \in {"none", "accept", "reject", "fault"}

\* compute_collatz has returned and build_trace has returned
Built == pc \in {"built", "fault", "air", "asserted", "evaluating", "done"}

\* the AIR exists and get_assertions has been called
Asserted == pc \in {"asserted", "evaluating", "done"}

Accepted == initial_number >= 1

Bits == 0 .. (TRACE_WIDTH - 2)

StepColumn == TRACE_WIDTH - 1

\* C1: for every accepted k, row r of the built trace decodes to the r-th
\* Collatz iterate of k for r <= step, and to 1 for r > step.
C1_RowsFollowCollatz ==
    (Built /\ Accepted) =>
        \A r \in 0 .. (Len(trace) - 1) :
            IF r <= step
            THEN num_from_state(trace[r + 1]) = orbit[r + 1]
            ELSE num_from_state(trace[r + 1]) = 1

\* C2: the length of the built trace is the smallest power of two that is
\* >= step + 1.
C2_LengthIsLeastPowerOfTwoCoveringSequence ==
    (Built /\ Accepted) =>
        /\ is_power_of_two(trace_length)
        /\ trace_length >= step + 1
        /\ \A e \in 0 .. 7 : 2 ^ e >= step + 1 => trace_length <= 2 ^ e

\* C3: every assertion returned for the public inputs (k, step) names a row
\* of the built trace and the cell there has the asserted value: row 0
\* decodes to k with step column 0, row `step` decodes to 1 with step column
\* equal to step.
C3_AssertionsHoldOnTrace ==
    (Asserted /\ Accepted /\ caller = "verify") =>
        /\ \A j \in 1 .. Len(assertions) : assertion_holds(assertions[j], trace)
        /\ num_from_state(trace[1]) = initial_number
        /\ trace[1][StepColumn] = 0
        /\ step < Len(trace)
        /\ num_from_state(trace[step + 1]) = 1
        /\ trace[step + 1][StepColumn] = step

\* C4: with step >= 1, the exempt trailing rows contain every row from row
\* `step` onward and do not contain row step - 1.
C4_ExemptionsCoverExactlyThePadding ==
    (Asserted /\ Accepted /\ caller = "verify" /\ step >= 1) =>
        LET exempt == exempt_rows(trace_length, pad_length) IN
        /\ \A r \in step .. (trace_length - 1) : r \in exempt
        /\ (step - 1) \notin exempt

\* C5: on every pair of adjacent rows whose first row is not exempt,
\* evaluate_transition started from a zeroed result yields zero for both
\* residuals.
C5_NonExemptResidualsAreZero ==
    (pc = "evaluating" /\ Accepted /\ caller \in {"prove", "verify"}
        /\ eval_row \notin exempt_rows(trace_length, pad_length)) =>
        result = zero_result

\* C6: checking the built trace against the AIR of the tampered inputs
\* (k, step + 1) raises no fault, violates at least one assertion and ends
\* in reject.
C6_WrongInputsAreRejectedCleanly ==
    (Accepted /\ caller = "verify_with_wrong_inputs") =>
        /\ fault = "none"
        /\ Asserted =>
             /\ \A j \in 1 .. Len(assertions) :
                    assertion_in_table(assertions[j], Len(trace))
             /\ \E j \in 1 .. Len(assertions) : ~assertion_holds(assertions[j], trace)
        /\ pc = "done" => outcome = "reject"

\* C7: the serialization carries the step count: a record that differs from
\* the serialized one only in its step serializes differently.
C7_SerializationBindsStep ==
    (caller # "none") =>
        \A s \in Elements :
            s # pub_inputs.step =>
                write_into([pub_inputs EXCEPT !.step = s]) # serialized

\* C8: started from a zeroed result, the binary residual is zero if and
\* only if each of the six bit cells of the current row is 0 or 1.
C8_BinaryResidualZeroIffBits ==
    (pc = "frame_done" /\ result_in = zero_result) =>
        (result[0] = ZERO <=> \A i \in Bits : current[i] \in {ZERO, ONE})

\* C9: when the parity selector current[0] is 0 or 1, the recurrence
\* residual is zero exactly when (b0 = 1 and n' = 3n + 1) or (b0 = 0 and
\* n = 2n'), n and n' being the values decoded from current and next.
C9_RecurrenceResidualZeroIffStep ==
    (pc = "frame_done" /\ current[0] \in {ZERO, ONE}) =>
        LET num == num_from_state(current)
            num2 == num_from_state(next)
        IN  result[1] = ZERO <=>
                \/ current[0] = ONE /\ num2 = Add(Mul(New(3), num), ONE)
                \/ current[0] = ZERO /\ num = Mul(New(2), num2)

C9_Witness ==
    /\ pc = "frame_done"
    /\ current[0] = ONE
    /\ \E i \in Bits : current[i] \notin {ZERO, ONE}
    /\ num_from_state(next) = Add(Mul(New(3), num_from_state(current)), ONE)
    /\ result[1] = ZERO

\* C10: the step column is 0 at row 0; from row r to row r + 1 it grows by
\* exactly 1 when row r decodes to a value other than 1 and is unchanged
\* when row r decodes to 1.
C10_StepColumnCountsSteps ==
    (Len(trace) >= 1) =>
        /\ trace[1][StepColumn] = 0
        /\ \A r \in 1 .. (Len(trace) - 1) :
               IF num_from_state(trace[r]) # 1
               THEN trace[r + 1][StepColumn] = trace[r][StepColumn] + 1
               ELSE trace[r + 1][StepColumn] = trace[r][StepColumn]

C10_Witness ==
    /\ pc = "built"
    /\ \E r \in 2 .. (Len(trace) - 1) :
          /\ num_from_state(trace[r - 1]) # 1
          /\ num_from_state(trace[r]) = 1
          /\ trace[r][StepColumn] = trace[r - 1][StepColumn] + 1
          /\ trace[r + 1][StepColumn] = trace[r][StepColumn]
\* C11: in every row of the trace, for every initial number below 100,
\* padding rows included, each of the six bit cells is 0 or 1.
C11_BitCellsAreBits ==
    \A r \in 1 .. Len(trace) : \A i \in Bits : trace[r][i] \in {ZERO, ONE}

C11_Witness ==
    /\ pc = "built"
    /\ initial_number >= 64
    /\ Len(trace) >= 4
    /\ num_from_state(trace[Len(trace)]) = 1
    /\ \E r \in 1 .. Len(trace) : \E i \in Bits : trace[r][i] = ONE /\ i >= 1

\* C12: a vector of six cells, each 0 or 1, that is decoded to a number and
\* decomposed again, by the builder's loop and by get_assertions, comes back
\* cell for cell.
C12_DecodeEncodeRoundTrip ==
    (pc = "frame_reencoded" /\ \A i \in Bits : current[i] \in {ZERO, ONE}) =>
        \A i \in Bits :
            /\ state[i] = current[i]
            /\ assertions[i + 1].column = i
            /\ assertions[i + 1].row = 0
            /\ assertions[i + 1].value = current[i]

C12_Witness ==
    /\ pc = "frame_reencoded"
    /\ \A i \in Bits : current[i] \in {ZERO, ONE}
    /\ current[0] = ZERO
    /\ current[1] = ONE
    /\ current[5] = ONE
    /\ pub_inputs.initial_num = 34
    /\ state[5] = ONE

\* C14: once a row decodes to 1 every later row equals it in all seven
\* columns; stated on every prefix of the table: each row that decodes to 1
\* equals the last row written.
C14_PaddingIsFrozen ==
    \A r \in 1 .. Len(trace) :
        num_from_state(trace[r]) = 1 => trace[r] = trace[Len(trace)]

C14_Witness ==
    /\ pc = "built"
    /\ \E r \in 2 .. (Len(trace) - 2) :
          /\ num_from_state(trace[r - 1]) # 1
          /\ num_from_state(trace[r]) = 1
          /\ trace[r][StepColumn] >= 1
          /\ trace[r + 2] = trace[r]

\* C15: for every accepted k, k and every Collatz iterate of k is below 64,
\* so the six-bit decompositions of the builder discard nothing.
C15_OrbitFitsInSixBits ==
    (Built /\ Accepted) =>
        \A i \in 1 .. Len(orbit) : orbit[i] < 2 ^ (TRACE_WIDTH - 1)

\* C16: for the step count of every accepted k, the subtraction inside
\* ceil_to_power_of_two(s) - (s + 1) + 2 does not go below zero and the
\* result is at least 1 and at most the trace length.
C16_ExemptionCountIsWellDefined ==
    (Accepted /\ caller \in {"prove", "verify"}) =>
        /\ ~pad_length_of(pub_inputs.step).underflow
        /\ fault # "underflow"
        /\ pad_length_of(pub_inputs.step).value >= 1
        /\ pad_length_of(pub_inputs.step).value <= trace_length

\* C17: the public inputs get_pub_inputs derives from the built trace equal,
\* field by field, the inputs verify supplies: (k, step).
C17_ProverInputsEqualVerifierInputs ==
    (Accepted /\ caller = "prove") =>
        /\ pub_inputs.initial_num = New(initial_number)
        /\ pub_inputs.step = New(step)

\* C18: the residuals evaluate_transition leaves in the buffer do not depend
\* on what the buffer held before the call: they are those of a call on a
\* zeroed buffer.
C18_ResidualsIgnorePriorBuffer ==
    (pc = "frame_done") =>
        result = evaluate_transition(current, next, zero_result)
\* the rows are consecutive pairs of the sequence 1, 1, 2, 3, 5, ...: row 0
\* is (F(1), F(2)) and each term is the sum of the two terms before it
FibRows ==
    \A r \in 1 .. Len(fib_trace) :
        IF r = 1
        THEN fib_trace[r][0] = ONE /\ fib_trace[r][1] = ONE
        ELSE /\ fib_trace[r][0] = Add(fib_trace[r - 1][0], fib_trace[r - 1][1])
             /\ fib_trace[r][1] = Add(fib_trace[r - 1][1], fib_trace[r][0])

FibReturned == pc \in {"fib_built", "fib_done"}

\* what C13 says of a returned trace: sequence_length / 2 rows, row r holding
\* (F(2r + 1), F(2r + 2)), and get_pub_inputs being the term F(sequence_length)
FibContents ==
    /\ FibReturned =>
         /\ Len(fib_trace) = sequence_length \div 2
         /\ FibRows
    /\ pc = "fib_done" =>
         /\ fib_pub = fib_trace[sequence_length \div 2][1]
         /\ sequence_length = 2 => fib_pub = New(1)
         /\ sequence_length = 8 => fib_pub = New(21)
         /\ sequence_length = 16 => fib_pub = New(987)

====
